---- MODULE Spec2Model ----
(***************************************************************************)
(* Model of run_matrix.py: the interface-test matrix runner.  One run      *)
(* resets the workspace, reads the registry and walks interface -> version *)
(* -> role -> charm; every charm of a tested role is one unit of work      *)
(* (_test_charm): clone, venv build, fixture lookup, test synthesis and    *)
(* pytest execution, folded into the nested result dictionaries.           *)
(*                                                                         *)
(* Spec is any number of runs over one workspace; SpecOnce is a single run *)
(* under fairness; SpecRuns keeps a record of the earlier runs;            *)
(* SpecFixture is _get_fixture called on its own.                          *)
(*                                                                         *)
(* Python dicts are sequences of [k, v] records in insertion order.  Paths *)
(* are sequences of path components.  Exit statuses of the subprocesses    *)
(* (git, virtualenv, pip, pytest) and the content of a cloned repository   *)
(* are inputs, chosen with \E where the code reads them.                   *)
(***************************************************************************)
EXTENDS Integers, Sequences, FiniteSets, TLC

VARIABLES
    registry,            \* what collect_tests finds on disk (never written)
    pc,                  \* where run_interface_tests stands
    collected,           \* run_interface_tests: collected
    ii, vi, ri, ci,      \* loop positions: interface, version, role, charm
    test_results,        \* run_interface_tests: test_results
    results_per_version, \* _test_interface_version: results_per_version
    results_per_role,    \* _test_roles: results_per_role
    out,                 \* _test_charms: out
    exists,              \* names of the charm directories under ROOT
    venv,                \* per charm: installation steps completed (0..3)
    files,               \* per charm: regular files, path -> content
    cwd,                 \* os.getcwd()
    retcode,             \* exit status of the unit's last subprocess (0: none yet)
    unit,                \* the unit of work in progress or just finished
    calls,               \* per charm: calls since the last reset, by function
    resets,              \* calls of _clean made by this run
    started,             \* the units of work this run has started, in order
    exit_status,         \* exit status of the process (-1: still running)
    fixture_call,        \* a call of _get_fixture on its own: input and outcome
    previous             \* earlier runs: how many, and what they left (SpecRuns)

vars == <<registry, pc, collected, ii, vi, ri, ci, test_results,
          results_per_version, results_per_role, out, exists, venv, files,
          cwd, retcode, unit, calls, resets, started, exit_status,
          fixture_call, previous>>

\* ------------------------------------------------------------- bounds
\* Longest list of charms registered for one role.
MaxCharms == 2
\* Largest number of charm entries in a whole registry.
MaxUnits == 2

\* ---------------------------------------------------------- constants
ROOT == <<"tmp", "charm-relation-interfaces-tests">>
FIXTURE_PATH == <<"tests", "interface", "conftest.py">>
FIXTURE_IDENTIFIER == "interface_tester"
\* The directory the process is started in.
LaunchDir == <<"home">>
\* subprocess.check_call steps of _setup_venv: virtualenv, pip (harness),
\* pip (requirements.txt).
VenvSteps == 3
\* Steps after which .interface-venv/bin/python -m pytest can start at all.
PytestReady == 2

\* ------------------------------------------------------ python values
None == "None"

\* dict: a sequence of [k, v] in insertion order.
DictKeys(d) == [i \in 1..Len(d) |-> d[i].k]
DictHas(d, key) == \E i \in 1..Len(d) : d[i].k = key
DictGet(d, key) == d[CHOOSE i \in 1..Len(d) : d[i].k = key].v
\* d[key] = val: an existing key keeps its place and takes the new value.
DictSet(d, key, val) ==
    IF DictHas(d, key)
    THEN [i \in 1..Len(d) |-> IF d[i].k = key THEN [k |-> key, v |-> val] ELSE d[i]]
    ELSE Append(d, [k |-> key, v |-> val])

\* pathlib: a / b and p.parent.
Join(a, b) == a \o b
Parent(p) == SubSeq(p, 1, Len(p) - 1)

Digits == <<"0", "1", "2", "3", "4", "5", "6", "7", "8", "9">>
DigitValue(ch) == (CHOOSE i \in 1..10 : Digits[i] = ch) - 1
RECURSIVE IntOf(_)
\* int(s) of a non-empty string of decimal digits.
IntOf(s) ==
    IF Len(s) = 1 THEN DigitValue(s[1])
    ELSE 10 * IntOf(SubSeq(s, 1, Len(s) - 1)) + DigitValue(s[Len(s)])

\* ----------------------------------------------------------- registry
Charms == {"A", "B"}
InterfaceNames == <<"ingress", "tracing">>
VersionLabels == << <<"v", "1">>, <<"v", "2">> >>
Roles == <<"provider", "requirer">>
CustomLocation == <<"custom", "conftest.py">>

\* _CharmTestConfig: A keeps the default fixture, B overrides its location.
\* (url and branch only shape the git command line, whose exit status is an
\* input of CloneCharmRepo.)
\* test_setup is a dict, or <<>> for None; a value of <<>> or "" is falsy.
ConfigA == [name |-> "A", test_setup |-> <<>>]
ConfigB == [name |-> "B",
            test_setup |-> <<[k |-> "location", v |-> CustomLocation],
                             [k |-> "identifier", v |-> ""]>>]
CharmConfigs == {ConfigA, ConfigB}

CharmLists == UNION {[1..n -> CharmConfigs] : n \in 0..MaxCharms}
\* _RoleTestSpec: a role with tests and any list of charms, or a role without
\* tests and with no charm or one.
RoleSpecs ==
    [tests : {<<"t1">>}, charms : CharmLists]
        \cup [tests : {<<>>}, charms : {<<>>, <<ConfigA>>}]
\* Roles that the collector may insert requirer first: tested, one charm.
SingleCharmSpecs == [tests : {<<"t1">>}, charms : {<<ConfigA>>, <<ConfigB>>}]
\* tests_per_role of one version: a dict keyed by role, provider inserted
\* first or, for some, requirer inserted first.
RolePairs ==
    {<<[k |-> "provider", v |-> p], [k |-> "requirer", v |-> r]>> :
        p \in RoleSpecs, r \in RoleSpecs}
    \cup {<<[k |-> "requirer", v |-> r], [k |-> "provider", v |-> p]>> :
             p \in SingleCharmSpecs, r \in SingleCharmSpecs}

\* Versions per interface of the registries explored.
Shapes == {<<>>, <<1>>, <<2>>, <<1, 1>>}

RECURSIVE Sum(_)
Sum(s) == IF s = <<>> THEN 0 ELSE s[1] + Sum(Tail(s))

\* The registry of shape sh whose version entries are, in order, slots.
BuildRegistry(sh, slots) ==
    [i \in 1..Len(sh) |->
        [k |-> InterfaceNames[i],
         v |-> [j \in 1..sh[i] |->
                  [k |-> VersionLabels[j],
                   v |-> slots[Sum(SubSeq(sh, 1, i - 1)) + j]]]]]

\* Number of charm entries of a version's two roles.
Entries(pair) == Len(pair[1].v.charms) + Len(pair[2].v.charms)

RECURSIVE TotalEntries(_)
TotalEntries(slots) ==
    IF slots = <<>> THEN 0 ELSE Entries(slots[1]) + TotalEntries(Tail(slots))

Registries ==
    UNION {{BuildRegistry(sh, slots) :
              slots \in {x \in [1..Sum(sh) -> RolePairs] : TotalEntries(x) <= MaxUnits}} :
           sh \in Shapes}

\* ------------------------------------------------------------- locals
\* The loop variables of the code, read off the loop positions.
CurInterface == collected[ii]
CurVersion == CurInterface.v[vi]
\* A plausible slip: `for role in tests_per_role`, the dict's own order.
CurRoleInRegistryOrder == CurVersion.v[ri].k
\* _test_roles: for role in ["provider", "requirer"]
CurRole == Roles[ri]
CurRoleSpec == DictGet(CurVersion.v, CurRole)
CurCharm == CurRoleSpec.charms[ci]
\* _test_interface_version: version_int = int(version[1:])
version_int == IntOf(Tail(CurVersion.k))
\* _prepare_repo: charm_path = root / Path(charm_config.name)
CharmPath(name) == Join(ROOT, <<name>>)

NoContent == [interface |-> None, fixture_id |-> None, version |-> -1]
NoUnit ==
    [interface |-> None, version |-> -1, role |-> None, charm |-> None,
     existed |-> FALSE, cloned |-> FALSE, built |-> FALSE,
     synthesized |-> FALSE, executed |-> FALSE, ran |-> NoContent,
     state |-> "none", err |-> "none",
     before |-> [exists |-> {}, venv |-> <<>>, files |-> <<>>]]

ZeroPerCharm == [c \in Charms |-> 0]
NoFiles == [c \in Charms |-> <<>>]
NoCalls ==
    [c \in Charms |-> [prepare_repo |-> 0, clone |-> 0, setup_venv |-> 0, pytest |-> 0]]

\* The process has not ended; it ends with status 1 when an exception
\* reaches the top of the script.
Running == -1
UncaughtExit == 1

\* A plausible slip: the script ends with sys.exit(1) when a leaf is false.
ExitStatusByLeaves(result) ==
    IF \E i \in 1..Len(result) : \E j \in 1..Len(result[i].v) :
          \E r \in 1..Len(result[i].v[j].v) :
             \E c \in 1..Len(result[i].v[j].v[r].v) : ~result[i].v[j].v[r].v[c].v
    THEN 1 ELSE 0

\* __main__: the script prints the result and runs off its end.
ExitStatus(result) == 0

\* No call of _get_fixture on its own is under way.
NoFixtureCall == [state |-> "none"]

\* No earlier run is on record.
NoPrevious == [runs |-> 0, left |-> {}]

\* The process at its start: nothing collected, the workspace empty.
AtStart ==
    /\ pc = "clean"
    /\ collected = <<>>
    /\ ii = 0 /\ vi = 0 /\ ri = 0 /\ ci = 0
    /\ test_results = <<>>
    /\ results_per_version = <<>>
    /\ results_per_role = <<>>
    /\ out = <<>>
    /\ exists = {}
    /\ venv = ZeroPerCharm
    /\ files = NoFiles
    /\ cwd = LaunchDir
    /\ retcode = 0
    /\ unit = NoUnit
    /\ calls = NoCalls
    /\ resets = 0
    /\ started = <<>>
    /\ exit_status = Running
    /\ previous = NoPrevious

Init ==
    /\ registry \in Registries
    /\ fixture_call = NoFixtureCall
    /\ AtStart

\* -------------------------------------------------------- orchestrator
\* A plausible slip: rmtree(root, ignore_errors=True), the failure is
\* swallowed and the run goes on over what is left.
CleanFailsQuietly ==
    /\ pc' = "collect"
    /\ UNCHANGED <<exit_status, exists, venv, files, calls>>

\* shutil.rmtree raises (say PermissionError) at the root; nothing catches
\* it, the run ends there.
CleanFails ==
    /\ pc' = "aborted"
    /\ exit_status' = UncaughtExit
    /\ UNCHANGED <<exists, venv, files, calls>>

\* A plausible slip: _clean removes another directory than the one
\* _prepare_repo clones into.
RmtreeElsewhere(dirs) == dirs

\* shutil.rmtree(root): no charm directory is left under the root.
Rmtree(dirs) == {}

\* A plausible slip: run_interface_tests does not call _clean.
CleanSkipped ==
    /\ pc = "clean"
    /\ pc' = "collect"
    /\ UNCHANGED <<fixture_call, previous, resets, started, exit_status, registry,
                   collected, ii, vi, ri, ci, test_results, results_per_version,
                   results_per_role, out, exists, venv, files, cwd, retcode,
                   unit, calls>>

\* _clean: if root.is_dir(): shutil.rmtree(root).  The root is a directory
\* once a clone has created a charm directory under it.  ok = FALSE: rmtree
\* fails.
Clean ==
    /\ pc = "clean"
    /\ resets' = resets + 1
    /\ \E ok \in BOOLEAN :
        IF exists = {} \/ ok
        THEN /\ exists' = Rmtree(exists)
             /\ venv' = [c \in Charms |-> IF c \in exists' THEN venv[c] ELSE 0]
             /\ files' = [c \in Charms |-> IF c \in exists' THEN files[c] ELSE <<>>]
             /\ calls' = NoCalls
             /\ pc' = "collect"
             /\ UNCHANGED exit_status
        ELSE CleanFails
    /\ UNCHANGED <<fixture_call, previous, started, registry, collected, ii,
                   vi, ri, ci, test_results,
                   results_per_version, results_per_role, out, cwd, retcode, unit>>

\* run_interface_tests: test_results = {}; collected = collect_tests(...)
CollectTests ==
    /\ pc = "collect"
    /\ test_results' = <<>>
    /\ collected' = registry
    /\ ii' = 1
    /\ pc' = "interfaces"
    /\ UNCHANGED <<fixture_call, previous, resets, started, exit_status,
                   registry, vi, ri, ci, results_per_version,
                   results_per_role, out, exists, venv, files, cwd, retcode, unit,
                   calls>>

\* for interface, version_to_roles in collected.items(): enter
\* _test_interface_version.
TestInterfaceVersion ==
    /\ pc = "interfaces"
    /\ ii <= Len(collected)
    /\ results_per_version' = <<>>
    /\ vi' = 1
    /\ pc' = "versions"
    /\ UNCHANGED <<fixture_call, previous, resets, started, exit_status,
                   registry, collected, ii, ri, ci, test_results,
                   results_per_role, out, exists, venv, files, cwd, retcode, unit,
                   calls>>

\* The interface loop is exhausted: return test_results.
ReturnResults ==
    /\ pc = "interfaces"
    /\ ii > Len(collected)
    /\ pc' = "done"
    /\ exit_status' = ExitStatus(test_results)
    /\ UNCHANGED <<fixture_call, previous, resets, started, registry,
                   collected, ii, vi, ri, ci, test_results,
                   results_per_version, results_per_role, out, exists, venv,
                   files, cwd, retcode, unit, calls>>

\* for version, tests_per_role in tests_per_version.items(): enter _test_roles.
TestRoles ==
    /\ pc = "versions"
    /\ vi <= Len(CurInterface.v)
    /\ results_per_role' = <<>>
    /\ ri' = 1
    /\ pc' = "roles"
    /\ UNCHANGED <<fixture_call, previous, resets, started, exit_status,
                   registry, collected, ii, vi, ci, test_results,
                   results_per_version, out, exists, venv, files, cwd, retcode,
                   unit,
                   calls>>

\* The version loop is exhausted: test_results[interface] = results_per_version.
EndInterface ==
    /\ pc = "versions"
    /\ vi > Len(CurInterface.v)
    /\ test_results' = DictSet(test_results, CurInterface.k, results_per_version)
    /\ ii' = ii + 1
    /\ pc' = "interfaces"
    /\ UNCHANGED <<fixture_call, previous, resets, started, exit_status,
                   registry, collected, vi, ri, ci, results_per_version,
                   results_per_role, out, exists, venv, files, cwd, retcode, unit,
                   calls>>

\* A plausible slip: the `if not interface_tests` branch is forgotten.
SkipsRoleWithoutCharmsOnly(spec) == spec.charms = <<>>

\* _test_roles: `if not interface_tests: ... elif not charm_configs: ...`
SkipsRole(spec) == spec.tests = <<>> \/ spec.charms = <<>>

\* _test_roles: a role without tests, or without charms, gets {}.
SkipRole ==
    /\ pc = "roles"
    /\ ri <= Len(Roles)
    /\ SkipsRole(CurRoleSpec)
    /\ results_per_role' = DictSet(results_per_role, CurRole, <<>>)
    /\ ri' = ri + 1
    /\ UNCHANGED <<fixture_call, previous, resets, started, exit_status,
                   registry, pc, collected, ii, vi, ci, test_results,
                   results_per_version, out, exists, venv, files, cwd, retcode,
                   unit,
                   calls>>

\* _test_roles: otherwise enter _test_charms (out = {}).
TestCharms ==
    /\ pc = "roles"
    /\ ri <= Len(Roles)
    /\ ~SkipsRole(CurRoleSpec)
    /\ out' = <<>>
    /\ ci' = 1
    /\ pc' = "charms"
    /\ UNCHANGED <<fixture_call, previous, resets, started, exit_status,
                   registry, collected, ii, vi, ri, test_results,
                   results_per_version, results_per_role, exists, venv, files,
                   cwd, retcode, unit, calls>>

\* The role loop is exhausted: results_per_version[version] = results_per_role.
EndVersion ==
    /\ pc = "roles"
    /\ ri > Len(Roles)
    /\ results_per_version' = DictSet(results_per_version, CurVersion.k, results_per_role)
    /\ vi' = vi + 1
    /\ pc' = "versions"
    /\ UNCHANGED <<fixture_call, previous, resets, started, exit_status,
                   registry, collected, ii, ri, ci, test_results,
                   results_per_role, out, exists, venv, files, cwd, retcode, unit,
                   calls>>

\* The charm loop is exhausted: results_per_role[role] = out.
EndRole ==
    /\ pc = "charms"
    /\ ci > Len(CurRoleSpec.charms)
    /\ results_per_role' = DictSet(results_per_role, CurRole, out)
    /\ ri' = ri + 1
    /\ pc' = "roles"
    /\ UNCHANGED <<fixture_call, previous, resets, started, exit_status,
                   registry, collected, ii, vi, ci, test_results,
                   results_per_version, out, exists, venv, files, cwd, retcode,
                   unit,
                   calls>>

\* ------------------------------------------------------- unit of work
\* A plausible slip: the failure is not caught at the unit's boundary and
\* ends the run.
FinishOrAbort(success) ==
    IF success
    THEN /\ out' = DictSet(out, CurCharm.name, success)
         /\ ci' = ci + 1
         /\ pc' = "charms"
    ELSE /\ pc' = "aborted"
         /\ UNCHANGED <<out, ci>>

\* _test_charm returns success; _test_charms: out[charm_config.name] = success.
Finish(success) ==
    /\ out' = DictSet(out, CurCharm.name, success)
    /\ ci' = ci + 1
    /\ pc' = "charms"

\* A plausible slip: the directory is not looked for, every call clones.
NeedsCloneAlways(name) == TRUE

\* _prepare_repo: `if not charm_path.exists()`.
NeedsClone(name) == name \notin exists

\* for charm_config in charm_configs: _test_charm -> _prepare_repo up to
\* `if not charm_path.exists()`.
TestCharm ==
    /\ pc = "charms"
    /\ ci <= Len(CurRoleSpec.charms)
    /\ unit' = [NoUnit EXCEPT !.interface = CurInterface.k,
                              !.version = version_int,
                              !.role = CurRole,
                              !.charm = CurCharm.name,
                              !.existed = CurCharm.name \in exists,
                              !.state = "pending",
                              !.before = [exists |-> exists, venv |-> venv,
                                          files |-> files]]
    /\ retcode' = 0
    /\ calls' = [calls EXCEPT ![CurCharm.name].prepare_repo = @ + 1]
    /\ started' = Append(started, <<CurInterface.k, CurVersion.k, CurRole, ci, CurCharm.name>>)
    /\ pc' = IF NeedsClone(CurCharm.name) THEN "clone" ELSE "fixture"
    /\ UNCHANGED <<fixture_call, previous, resets, exit_status, registry,
                   collected, ii, vi, ri, ci, test_results,
                   results_per_version, results_per_role, out, exists, venv,
                   files, cwd>>

\* Exit statuses of `git clone` seen by subprocess.call: success, git's
\* failure status, death by signal 9.
CloneExit == {0, 128, -9}
\* The fixture file a cloned repository ships: at the default location, or
\* at the custom one.
RepoContents ==
    {<<[k |-> FIXTURE_PATH, v |-> "fixture"]>>,
     <<[k |-> CustomLocation, v |-> "fixture"]>>}

\* _clone_charm_repo: `if retcode > 0: raise SetupError`.
CloneRaises(rc) == rc > 0

\* _clone_charm_repo.  git leaves the directory on success, removes it when
\* it fails; killed by a signal it may leave a partial tree or none.
CloneCharmRepo ==
    /\ pc = "clone"
    /\ \E rc \in CloneExit, left \in BOOLEAN :
        /\ rc = 0 => left
        /\ rc > 0 => ~left
        /\ retcode' = rc
        /\ exists' = IF left THEN exists \cup {CurCharm.name} ELSE exists
        /\ IF left
           THEN \E content \in RepoContents :
                    files' = [files EXCEPT ![CurCharm.name] = content]
           ELSE UNCHANGED files
        /\ calls' = [calls EXCEPT ![CurCharm.name].clone = @ + 1]
        /\ IF CloneRaises(rc)
           THEN /\ unit' = [unit EXCEPT !.cloned = TRUE, !.state = "failed",
                                        !.err = "SetupError"]
                /\ Finish(FALSE)
           ELSE /\ unit' = [unit EXCEPT !.cloned = TRUE]
                /\ pc' = "venv"
                /\ UNCHANGED <<out, ci>>
    /\ UNCHANGED <<fixture_call, previous, resets, started, exit_status,
                   registry, collected, ii, vi, ri, test_results,
                   results_per_version, results_per_role, venv, cwd>>

\* The working directory _setup_venv leaves behind: os.chdir(original_wd) is
\* the last statement, reached only when no step raised.
VenvExitDir(original_wd, charm_path, ok) == IF ok THEN original_wd ELSE charm_path

\* Steps of _setup_venv completed when it ends: virtualenv fails (0), pip
\* install -r requirements.txt fails (2), nothing fails (VenvSteps).
VenvOutcomes == {0, 2, VenvSteps}

\* _setup_venv.  done = number of check_call steps that succeed before the
\* first failure (VenvSteps: none fails).  os.chdir raises FileNotFoundError
\* when the clone left no directory; only SetupError is caught on the way up.
SetupVenv ==
    /\ pc = "venv"
    /\ IF CurCharm.name \notin exists
       THEN /\ unit' = [unit EXCEPT !.built = TRUE, !.state = "crashed",
                                    !.err = "FileNotFoundError"]
            /\ pc' = "aborted"
            /\ exit_status' = UncaughtExit
            /\ calls' = [calls EXCEPT ![CurCharm.name].setup_venv = @ + 1]
            /\ UNCHANGED <<venv, cwd, retcode, out, ci>>
       ELSE \E done \in VenvOutcomes :
            /\ venv' = [venv EXCEPT ![CurCharm.name] = done]
            /\ retcode' = IF done = VenvSteps THEN 0 ELSE 1
            /\ calls' = [calls EXCEPT ![CurCharm.name].setup_venv = @ + 1]
            /\ cwd' = VenvExitDir(cwd, CharmPath(CurCharm.name), done = VenvSteps)
            /\ UNCHANGED exit_status
            /\ IF done < VenvSteps
               THEN /\ unit' = [unit EXCEPT !.built = TRUE, !.state = "failed",
                                            !.err = "SetupError"]
                    /\ Finish(FALSE)
               ELSE /\ unit' = [unit EXCEPT !.built = TRUE, !.state = "provisioned"]
                    /\ pc' = "fixture"
                    /\ UNCHANGED <<out, ci>>
    /\ UNCHANGED <<fixture_call, previous, resets, started, registry,
                   collected, ii, vi, ri, test_results,
                   results_per_version, results_per_role, exists, files>>

\* _get_fixture: the defaults, each replaced by a truthy override.
get_fixture(charm_config, charm_path) ==
    LET ts == charm_config.test_setup
        location == DictGet(ts, "location")
        identifier == DictGet(ts, "identifier")
    IN  [path |-> IF ts # <<>> /\ location # <<>>
                  THEN Join(charm_path, location)
                  ELSE Join(charm_path, FIXTURE_PATH),
         id |-> IF ts # <<>> /\ identifier # ""
                THEN identifier
                ELSE FIXTURE_IDENTIFIER]

\* Path.is_file() of a path under a charm directory.
IsFile(name, path) ==
    /\ name \in exists
    /\ \E i \in 1..Len(files[name]) : Join(CharmPath(name), files[name][i].k) = path

\* A plausible slip: the test is run without a fixture (the code's NOTE).
FixtureMissingIgnored(name, path) == FALSE

\* _prepare_repo: `if not fixture_spec.path.is_file(): raise SetupError`.
FixtureMissing(name, path) == ~IsFile(name, path)

\* _prepare_repo: fixture_spec = _get_fixture(...); SetupError unless
\* fixture_spec.path.is_file().
GetFixture ==
    /\ pc = "fixture"
    /\ LET spec == get_fixture(CurCharm, CharmPath(CurCharm.name))
       IN  IF FixtureMissing(CurCharm.name, spec.path)
           THEN /\ unit' = [unit EXCEPT !.state = "failed", !.err = "SetupError"]
                /\ Finish(FALSE)
           ELSE /\ unit' = [unit EXCEPT !.state = "fixture-resolved"]
                /\ pc' = "generate"
                /\ UNCHANGED <<out, ci>>
    /\ UNCHANGED <<fixture_call, previous, resets, started, exit_status,
                   registry, collected, ii, vi, ri, test_results,
                   results_per_version, results_per_role, exists, venv, files,
                   cwd, retcode, calls>>

\* f"interface-test-{interface}.py"
TestFileName(interface) ==
    CASE interface = "ingress" -> "interface-test-ingress.py"
      [] interface = "tracing" -> "interface-test-tracing.py"

\* _TEST_CONTENT.format(interface, fixture_id, version)
TestContent(interface, fixture_id, version) ==
    [interface |-> interface, fixture_id |-> fixture_id, version |-> version]

\* The path of the generated test, relative to the charm directory.
TestPath(charm_config, interface) ==
    LET spec == get_fixture(charm_config, <<>>)
    IN  Join(Parent(spec.path), <<TestFileName(interface)>>)

\* A plausible slip: a test file already there is kept, as a charm
\* directory already there is.
WriteTextIfAbsent(fs, path, content) ==
    IF DictHas(fs, path) THEN fs ELSE DictSet(fs, path, content)

\* with open(path, "w") as file: file.write(content): the file is created
\* or truncated and holds the new content.
WriteText(fs, path, content) == DictSet(fs, path, content)

\* _generate_test: write the test file beside the fixture.
GenerateTest ==
    /\ pc = "generate"
    /\ LET spec == get_fixture(CurCharm, <<>>)
       IN  files' = [files EXCEPT ![CurCharm.name] =
                        WriteText(@, TestPath(CurCharm, CurInterface.k),
                                  TestContent(CurInterface.k, spec.id,
                   version_int))]
    /\ unit' = [unit EXCEPT !.synthesized = TRUE, !.state = "synthesized"]
    /\ pc' = "pytest"
    /\ UNCHANGED <<fixture_call, previous, resets, started, exit_status,
                   registry, collected, ii, vi, ri, ci, test_results,
                   results_per_version, results_per_role, out, exists, venv,
                   cwd, retcode, calls>>

\* The working directory _run_test_with_pytest leaves behind.
PytestExitDir(original_wd, root, ok) == IF ok THEN original_wd ELSE root

\* Exit statuses of pytest seen by subprocess.check_call: all tests passed,
\* some failed.
PytestExit == {0, 1}

\* A plausible slip: subprocess.call in place of check_call, the status is
\* dropped.
PytestRaisesNever(rc) == FALSE

\* subprocess.check_call raises CalledProcessError, turned into
\* InterfaceTestError, on every non-zero status.
PytestRaises(rc) == rc # 0

\* _run_test_with_pytest and the rest of _test_charm.  Without an interpreter
\* and pytest in .interface-venv the command cannot exit 0.
RunTestWithPytest ==
    /\ pc = "pytest"
    /\ \E rc \in PytestExit :
        /\ venv[CurCharm.name] < PytestReady => rc # 0
        /\ retcode' = rc
        /\ cwd' = PytestExitDir(cwd, CharmPath(CurCharm.name), ~PytestRaises(rc))
        /\ calls' = [calls EXCEPT ![CurCharm.name].pytest = @ + 1]
        /\ unit' = [unit EXCEPT
                      !.executed = TRUE,
                      !.ran = DictGet(files[CurCharm.name],
                                      TestPath(CurCharm, CurInterface.k)),
                      !.state = IF PytestRaises(rc) THEN "failed" ELSE "passed",
                      !.err = IF PytestRaises(rc) THEN "InterfaceTestError" ELSE "none"]
        /\ Finish(~PytestRaises(rc))
    /\ UNCHANGED <<fixture_call, previous, resets, started, exit_status,
                   registry, collected, ii, vi, ri, test_results,
                   results_per_version, results_per_role, exists, venv, files>>

\* The orchestrator is started again: a new process, in the launch
\* directory, over the workspace as the last run left it.
Restart ==
    /\ pc \in {"done", "aborted"}
    /\ pc' = "clean"
    /\ cwd' = LaunchDir
    /\ retcode' = 0
    /\ collected' = <<>>
    /\ ii' = 0 /\ vi' = 0 /\ ri' = 0 /\ ci' = 0
    /\ test_results' = <<>>
    /\ results_per_version' = <<>>
    /\ results_per_role' = <<>>
    /\ out' = <<>>
    /\ unit' = NoUnit
    /\ resets' = 0
    /\ started' = <<>>
    /\ exit_status' = Running
    /\ UNCHANGED <<fixture_call, registry, exists, venv, files, calls>>

\* Any number of runs, one after the other; no record is kept of them.
StartRun == Restart /\ UNCHANGED previous

Next ==
    \/ Clean
    \/ CollectTests
    \/ TestInterfaceVersion
    \/ ReturnResults
    \/ TestRoles
    \/ EndInterface
    \/ SkipRole
    \/ TestCharms
    \/ EndVersion
    \/ TestCharm
    \/ EndRole
    \/ CloneCharmRepo
    \/ SetupVenv
    \/ GetFixture
    \/ GenerateTest
    \/ RunTestWithPytest
    \/ StartRun

Spec == Init /\ [][Next]_vars

\* ------------------------------------------------- consecutive runs
\* Runs of the orchestrator on record in SpecRuns.
MaxRuns == 2

\* The next run of the same registry, the earlier ones put on record.
StartNextRun ==
    /\ previous.runs + 1 < MaxRuns
    /\ Restart
    /\ previous' = [runs |-> previous.runs + 1, left |-> exists]

NextRuns ==
    \/ Clean
    \/ CollectTests
    \/ TestInterfaceVersion
    \/ ReturnResults
    \/ TestRoles
    \/ EndInterface
    \/ SkipRole
    \/ TestCharms
    \/ EndVersion
    \/ TestCharm
    \/ EndRole
    \/ CloneCharmRepo
    \/ SetupVenv
    \/ GetFixture
    \/ GenerateTest
    \/ RunTestWithPytest
    \/ StartNextRun

\* The registries of one interface in one version.
RunRegistries == {r \in Registries : Len(r) = 1 /\ Len(r[1].v) = 1}

InitRuns ==
    /\ registry \in RunRegistries
    /\ fixture_call = NoFixtureCall
    /\ AtStart

SpecRuns == InitRuns /\ [][NextRuns]_vars

\* ------------------------------------------------------- a single run
\* One run of the orchestrator, from the start of the process to its end.
NextOnce ==
    \/ Clean
    \/ CollectTests
    \/ TestInterfaceVersion
    \/ ReturnResults
    \/ TestRoles
    \/ EndInterface
    \/ SkipRole
    \/ TestCharms
    \/ EndVersion
    \/ TestCharm
    \/ EndRole
    \/ CloneCharmRepo
    \/ SetupVenv
    \/ GetFixture
    \/ GenerateTest
    \/ RunTestWithPytest

\* The interpreter runs one statement after the other and every subprocess
\* call returns: a run that can take a step takes one.
SpecOnce == Init /\ [][NextOnce]_vars /\ WF_vars(NextOnce)

\* ------------------------------------------- _get_fixture on its own
\* Values of test_setup["location"] and test_setup["identifier"] that
\* override: a custom place, a file beside the charm's root, the default
\* place spelled out; a custom name, the default name spelled out.
Locations == {CustomLocation, <<"conftest.py">>, FIXTURE_PATH}
Identifiers == {"my_tester", FIXTURE_IDENTIFIER}

\* test_setup: None or {} (both <<>>), or a dict holding "location",
\* "identifier" or both, each with an overriding value or a falsy one.
TestSetups ==
    {l \o i :
        l \in {<<>>} \cup {<<[k |-> "location", v |-> x]>> : x \in {<<>>} \cup Locations},
        i \in {<<>>} \cup {<<[k |-> "identifier", v |-> x]>> : x \in {""} \cup Identifiers}}

\* charm_path: a charm directory, or the empty relative path.
CharmPaths == {CharmPath(c) : c \in Charms} \cup {<<>>}

\* _get_fixture: test_setup["location"] and test_setup["identifier"] are
\* subscriptions of a dict; an absent key raises KeyError.
GetFixtureRaises(charm_config) ==
    LET ts == charm_config.test_setup
    IN  ts # <<>> /\ (~DictHas(ts, "location") \/ ~DictHas(ts, "identifier"))

InitFixture ==
    /\ AtStart
    /\ registry = <<>>
    /\ fixture_call \in
          [state : {"called"},
           charm_config : [name : {"A"}, test_setup : TestSetups],
           charm_path : CharmPaths]

\* One call of _get_fixture: it returns a FixtureSpec or raises.
CallGetFixture ==
    /\ fixture_call.state = "called"
    /\ fixture_call' =
          IF GetFixtureRaises(fixture_call.charm_config)
          THEN [fixture_call EXCEPT !.state = "KeyError"]
          ELSE [state |-> "returned",
                charm_config |-> fixture_call.charm_config,
                charm_path |-> fixture_call.charm_path,
                spec |-> get_fixture(fixture_call.charm_config,
                                     fixture_call.charm_path)]
    /\ UNCHANGED <<registry, pc, collected, ii, vi, ri, ci, test_results,
                   results_per_version, results_per_role, out, exists, venv,
                   files, cwd, retcode, unit, calls, resets, started,
                   exit_status, previous>>

NextFixture == CallGetFixture

SpecFixture == InitFixture /\ [][NextFixture]_vars

\* ------------------------------------------------------------- claims
\* The charm lists of the role in progress, and the stages of a unit.
CurCharmNames == [j \in 1..Len(CurRoleSpec.charms) |-> CurRoleSpec.charms[j].name]
UnitStages == {"clone", "venv", "fixture", "generate", "pytest"}
InRole == pc = "charms" \/ pc \in UnitStages
\* The charm loop stands right behind a unit: `unit` is that unit, finished.
JustFinished == pc = "charms" /\ ci > 1

\* C1: failure isolation.  A unit that ends in SetupError does not end the
\* run and leaves every other charm's directory, environment and files as
\* they were when the unit started; the charm loop goes on, so that every
\* earlier charm of the role has its leaf while a later one is at work and
\* every charm has one when the loop is exhausted; and a finished unit's leaf
\* is that unit's own outcome.
Thm_C1_FailureIsolation ==
    /\ (unit.state = "failed" /\ unit.err = "SetupError") =>
        /\ pc # "aborted"
        /\ \A b \in Charms \ {unit.charm} :
            /\ (b \in exists) = (b \in unit.before.exists)
            /\ venv[b] = unit.before.venv[b]
            /\ files[b] = unit.before.files[b]
    /\ InRole =>
        \A j \in 1..Len(CurCharmNames) : j < ci => DictHas(out, CurCharmNames[j])
    /\ JustFinished =>
        /\ unit.charm = CurCharmNames[ci - 1]
        /\ unit.state \in {"passed", "failed"}
        /\ DictGet(out, unit.charm) = (unit.state = "passed")

\* C1 witness: in a role listing A then B, A failed in provisioning
\* (pytest never ran for A) and B's unit then ran to a passed leaf.
Wit_C1_BPassesAfterAFails ==
    /\ pc = "charms"
    /\ CurCharmNames = <<"A", "B">>
    /\ ci = 3
    /\ calls["A"].pytest = 0
    /\ unit.charm = "B" /\ unit.state = "passed"
    /\ out = <<[k |-> "A", v |-> FALSE], [k |-> "B", v |-> TRUE]>>

\* C2: no failure inside a unit of work ends the run: the run never stops
\* with an exception that escaped a unit.
CE_C2_UnitFailureNeverAborts == ~(pc = "aborted" /\ unit.state = "crashed")

\* C3: _setup_venv leaves the working directory as it found it, on every
\* exit path.
CE_C3_SetupVenvRestoresCwd == [][pc = "venv" => cwd' = cwd]_vars

\* C4: _run_test_with_pytest leaves the working directory as it found it,
\* whether it returns or raises InterfaceTestError.
CE_C4_PytestRestoresCwd == [][pc = "pytest" => cwd' = cwd]_vars

\* C5: a failed installation step raises SetupError and fails the unit, and
\* pytest is never run in a charm whose environment is not fully installed,
\* so no unit passes on top of a partial environment.
CE_C5_PartialEnvNeverUsed ==
    /\ (unit.built /\ unit.charm \in exists /\ venv[unit.charm] < VenvSteps) =>
        (unit.state = "failed" /\ unit.err = "SetupError")
    /\ pc = "pytest" => venv[CurCharm.name] = VenvSteps
    /\ unit.state = "passed" => venv[unit.charm] = VenvSteps

\* C6: after a clone with a non-zero exit status, of either sign, the unit
\* has failed with SetupError and _setup_venv is not reached.
CE_C6_NonZeroCloneRaises == pc = "venv" => retcode = 0

\* C7 as stated: two calls of the Provisioner for one charm since the last
\* reset make exactly one clone, whatever the first call's outcome.
CE_C7_ExactlyOneClone ==
    \A c \in Charms : calls[c].prepare_repo = 2 => calls[c].clone = 1

\* C7 amended: when the second call finds the charm directory the first call
\* left, it does not clone, and the two calls made exactly one clone.
Thm_C7_ReuseWithoutClone ==
    \A c \in Charms :
        (calls[c].prepare_repo = 2 /\ unit.charm = c /\ unit.existed) =>
            (calls[c].clone = 1 /\ ~unit.cloned)

\* C7 witness: the second unit for A found A's directory and ran to the end.
Wit_C7_SecondCallReuses ==
    /\ calls["A"].prepare_repo = 2
    /\ unit.charm = "A" /\ unit.existed /\ unit.state = "passed"

\* The registry's role spec a unit record belongs to.
UnitRoleSpec(u) ==
    LET versions == DictGet(registry, u.interface)
        i == CHOOSE j \in 1..Len(versions) : IntOf(Tail(versions[j].k)) = u.version
    IN  DictGet(versions[i].v, u.role)

EmptyRole(spec) == Len(spec.tests) = 0 \/ Len(spec.charms) = 0

\* What the role dict of a finished version says, against the registry:
\* both role keys, and {} for a role without tests or without charms.
RoleResultsOk(per_role, tests_per_role) ==
    /\ DictKeys(per_role) = Roles
    /\ \A r \in {"provider", "requirer"} :
        EmptyRole(DictGet(tests_per_role, r)) => DictGet(per_role, r) = <<>>

\* C8: empty-role signalling.  Every version recorded in
\* results_per_version or in test_results has both role keys; a role without
\* tests or without charms has {} there; and no unit of work is ever
\* started for such a role.
Thm_C8_EmptyRole ==
    /\ unit.state # "none" => ~EmptyRole(UnitRoleSpec(unit))
    /\ pc \in {"versions", "roles", "charms"} \cup UnitStages =>
        \A j \in 1..Len(results_per_version) :
            RoleResultsOk(results_per_version[j].v, CurInterface.v[j].v)
    /\ \A i \in 1..Len(test_results) :
        \A j \in 1..Len(test_results[i].v) :
            RoleResultsOk(test_results[i].v[j].v, collected[i].v[j].v)
    /\ (pc = "roles" /\ ri > 1 /\ EmptyRole(DictGet(CurVersion.v, Roles[ri - 1]))) =>
        (DictHas(results_per_role, Roles[ri - 1])
            /\ DictGet(results_per_role, Roles[ri - 1]) = <<>>)

\* C8 witness: a finished run whose tree holds a version with a tested
\* provider and an empty requirer that has charms but no tests.
Wit_C8_EmptyRequirer ==
    /\ pc = "done"
    /\ Len(test_results) >= 1
    /\ Len(test_results[1].v) >= 1
    /\ DictGet(test_results[1].v[1].v, "provider") # <<>>
    /\ DictGet(test_results[1].v[1].v, "requirer") = <<>>
    /\ DictGet(collected[1].v[1].v, "requirer").charms # <<>>

\* The registry's charm config of a name, its fixture path inside the charm
\* directory, and the files of a charm directory.
ConfigOf(name) == CHOOSE c \in CharmConfigs : c.name = name
ResolvedFixture(name) ==
    IF ConfigOf(name).test_setup = <<>> THEN FIXTURE_PATH ELSE CustomLocation
FilesOf(name) == {files[name][i].k : i \in 1..Len(files[name])}

\* C9: a unit that meets SetupError is failed at once: nothing is
\* synthesized and pytest is not run in it, and its leaf is there, false.
\* Conversely a unit synthesizes or runs a test only with the charm's
\* directory and fixture file in place, and, if it cloned, after a complete
\* environment build.
Thm_C9_SetupErrorSkips ==
    /\ unit.err = "SetupError" =>
        /\ unit.state = "failed"
        /\ ~unit.synthesized
        /\ ~unit.executed
        /\ JustFinished =>
            (DictHas(out, unit.charm) /\ DictGet(out, unit.charm) = FALSE)
    /\ (unit.synthesized \/ unit.executed) =>
        /\ unit.charm \in exists
        /\ ResolvedFixture(unit.charm) \in FilesOf(unit.charm)
        /\ unit.cloned => (unit.built /\ venv[unit.charm] = VenvSteps)

\* C9 witness: a unit failed for want of the fixture file, after a clone and
\* a complete environment build.
Wit_C9_MissingFixture ==
    /\ JustFinished
    /\ unit.err = "SetupError"
    /\ unit.cloned /\ unit.built
    /\ venv[unit.charm] = VenvSteps
    /\ DictGet(out, unit.charm) = FALSE

\* C10: the leaf of a finished unit is true exactly when pytest was run in
\* that unit and exited with status zero.
Thm_C10_LeafIsExitStatus ==
    JustFinished =>
        /\ DictHas(out, unit.charm)
        /\ DictGet(out, unit.charm) = (unit.executed /\ retcode = 0)

\* C10 witness: pytest ran and exited non-zero; the leaf is false.
Wit_C10_PytestFailed ==
    /\ JustFinished
    /\ unit.executed
    /\ retcode # 0
    /\ DictGet(out, unit.charm) = FALSE

\* C11: every attempted unit of a role has a leaf of its own: while a role
\* is at work the number of leaves in `out` is the number of units finished
\* in it, whatever the charm names of the list; no leaf is overwritten.
CE_C11_OneLeafPerAttempt == InRole => Len(out) = ci - 1

\* An override of test_setup: the key is there with a truthy value.
Overrides(ts, key, falsy) ==
    ts # <<>> /\ DictHas(ts, key) /\ DictGet(ts, key) # falsy

\* C12: fixture override precedence.  Every call of _get_fixture returns,
\* none raises; the resolved location is the location override under the
\* charm path when there is one and the default location otherwise, and the
\* resolved identifier is the identifier override when there is one and the
\* default identifier otherwise, each independently of the other.
CE_C12_OverridePrecedence ==
    fixture_call.state \notin {"none", "called"} =>
        LET ts == fixture_call.charm_config.test_setup
        IN  /\ fixture_call.state = "returned"
            /\ fixture_call.spec.path =
                   Join(fixture_call.charm_path,
                        IF Overrides(ts, "location", <<>>)
                        THEN DictGet(ts, "location") ELSE FIXTURE_PATH)
            /\ fixture_call.spec.id =
                   IF Overrides(ts, "identifier", "")
                   THEN DictGet(ts, "identifier") ELSE FIXTURE_IDENTIFIER

RECURSIVE Flatten(_)
\* The concatenation of a sequence of sequences.
Flatten(ss) == IF ss = <<>> THEN <<>> ELSE ss[1] \o Flatten(Tail(ss))

IsPrefix(s, t) == Len(s) <= Len(t) /\ SubSeq(t, 1, Len(s)) = s

\* The units of work a registry calls for, in the order the traversal is
\* meant to take: interfaces and versions as the registry lists them, the
\* provider role before the requirer role whichever the registry lists
\* first, the charms of a tested role as the registry lists them.
RoleUnits(interface, version, role, spec) ==
    IF EmptyRole(spec) THEN <<>>
    ELSE [c \in 1..Len(spec.charms) |->
            <<interface, version, role, c, spec.charms[c].name>>]
VersionUnits(interface, ver) ==
    RoleUnits(interface, ver.k, "provider", DictGet(ver.v, "provider"))
        \o RoleUnits(interface, ver.k, "requirer", DictGet(ver.v, "requirer"))
InterfaceUnits(int) ==
    Flatten([j \in 1..Len(int.v) |-> VersionUnits(int.k, int.v[j])])
TraversalOrder(reg) == Flatten([i \in 1..Len(reg) |-> InterfaceUnits(reg[i])])

\* C13: deterministic traversal order.  The units a run has started are, in
\* order, the first units of the registry's traversal order (interfaces and
\* versions in registry order, provider before requirer, charms in registry
\* order), and all of them once the run has returned; the keys of the result
\* dictionaries follow the same order: roles provider then requirer,
\* versions and interfaces as in the registry.
Thm_C13_TraversalOrder ==
    /\ IsPrefix(started, TraversalOrder(registry))
    /\ pc = "done" => started = TraversalOrder(registry)
    /\ IsPrefix(DictKeys(results_per_role), Roles)
    /\ pc \in {"versions", "roles", "charms"} \cup UnitStages =>
        IsPrefix(DictKeys(results_per_version), DictKeys(CurInterface.v))
    /\ IsPrefix(DictKeys(test_results), DictKeys(registry))
    /\ \A i \in 1..Len(test_results) :
        /\ DictKeys(test_results[i].v) = DictKeys(registry[i].v)
        /\ \A j \in 1..Len(test_results[i].v) :
              DictKeys(test_results[i].v[j].v) = Roles

\* C13 witness: the registry lists requirer before provider for the first
\* version; the run has returned, having started the provider's unit first
\* and the requirer's second, and the tree lists provider first.
Wit_C13_RequirerListedFirst ==
    /\ pc = "done"
    /\ Len(registry) >= 1 /\ Len(registry[1].v) >= 1
    /\ DictKeys(registry[1].v[1].v) = <<"requirer", "provider">>
    /\ Len(started) = 2
    /\ started[1][3] = "provider" /\ started[2][3] = "requirer"
    /\ DictKeys(test_results[1].v[1].v) = <<"provider", "requirer">>

\* C14: the reset runs exactly once in a run and before everything else.
\* A run has called _clean at most once; it stands before the reset exactly
\* while it has not called it, and then it has collected nothing and started
\* no unit; once past the reset it never comes back to it; and when the
\* traversal begins the workspace holds nothing, no clone, environment
\* build, synthesis or execution having taken place since the reset.
Thm_C14_ResetOnceFirst ==
    /\ resets <= 1
    /\ (pc = "clean") = (resets = 0)
    /\ resets = 0 => (started = <<>> /\ unit = NoUnit /\ collected = <<>>)
    /\ started # <<>> => resets = 1
    /\ pc = "collect" =>
        (exists = {} /\ venv = ZeroPerCharm /\ files = NoFiles /\ calls = NoCalls)

\* C14 witness: a run is at work in a unit that has built an environment,
\* after its one reset.
Wit_C14_ProvisioningAfterReset ==
    /\ resets = 1
    /\ pc = "fixture"
    /\ unit.cloned /\ unit.built
    /\ calls[unit.charm].setup_venv = 1

\* The reset of this run failed: it was called, no unit has started, and
\* charm directories are still there.
ResetFailed == resets = 1 /\ started = <<>> /\ exists # {}

\* C15: a failed reset is fatal.  The run has ended with the error (exit
\* status of an uncaught exception), the reset has been called once and not
\* again, nothing was collected, no unit was started, no result was built
\* or returned, and nothing was cloned, built or executed after the failure.
Thm_C15_ResetFailureFatal ==
    ResetFailed =>
        /\ pc = "aborted"
        /\ exit_status = UncaughtExit
        /\ collected = <<>>
        /\ test_results = <<>>
        /\ unit = NoUnit

\* C15 witness: the run is over, at a reset that failed on a workspace
\* where an earlier run had left A's directory.
Wit_C15_ResetFailed ==
    /\ ResetFailed
    /\ pc = "aborted"
    /\ "A" \in exists

\* The unit on record is the first since the reset to provision its charm.
FirstOfCharm == unit.state # "none" /\ calls[unit.charm].prepare_repo = 1

\* C16: the workspace reset precondition.  In a run that follows another
\* one, the traversal begins over an empty workspace, and the first unit to
\* provision a charm finds no directory of that charm, whatever the earlier
\* run left: it clones, and it is past provisioning only after a clone and
\* an environment build of its own.
Thm_C16_SecondRunProvisionsAfresh ==
    previous.runs >= 1 =>
        /\ pc = "collect" => (exists = {} /\ venv = ZeroPerCharm /\ files = NoFiles)
        /\ FirstOfCharm =>
            /\ ~unit.existed
            /\ pc # "clone" => (unit.cloned /\ calls[unit.charm].clone = 1)
            /\ (unit.synthesized \/ unit.executed
                    \/ unit.state \in {"provisioned", "fixture-resolved"}) =>
                (unit.built /\ calls[unit.charm].setup_venv = 1)

\* C16 witness: the first run left A's directory; the second run's first
\* unit for A cloned and built anew and passed.
Wit_C16_SecondRunClonesAgain ==
    /\ previous.runs = 1
    /\ "A" \in previous.left
    /\ FirstOfCharm
    /\ unit.charm = "A"
    /\ unit.cloned /\ unit.built
    /\ unit.state = "passed"

Range(s) == {s[i] : i \in 1..Len(s)}

\* The leaves of a result tree.
Leaves(result) ==
    UNION {UNION {UNION {{leaf.v : leaf \in Range(role.v)} :
                            role \in Range(version.v)} :
                     version \in Range(interface.v)} :
              interface \in Range(result)}

\* C17: the exit status does not tell pass from fail.  Every run that
\* completes its traversal ends with exit status 0, whether all its leaves
\* are true or some leaf is false (so any two such runs end alike), and no
\* other run does; a failed unit shows as a false leaf of the returned tree.
Thm_C17_ExitStatusBlind ==
    /\ pc = "done" => exit_status = 0
    /\ exit_status = 0 => pc = "done"
    /\ (pc = "done" /\ unit.state = "failed") => FALSE \in Leaves(test_results)

\* C17 witness: a run has returned a tree with a false leaf and a true leaf
\* and its exit status is 0.
Wit_C17_FalseLeafExitZero ==
    /\ pc = "done"
    /\ Leaves(test_results) = {FALSE, TRUE}
    /\ exit_status = 0

\* C18: the environment builder runs only in the unit that creates the
\* charm's directory.  _setup_venv is entered only by a unit that found no
\* directory and has just cloned with exit status 0, the directory being
\* there; a unit that has called it had found no directory; and it is
\* called at most once per charm between two resets.
CE_C18_BuilderOnlyAfterSuccessfulClone ==
    /\ pc = "venv" =>
        /\ ~unit.existed
        /\ unit.cloned
        /\ retcode = 0
        /\ unit.charm \in exists
    /\ unit.built => (~unit.existed /\ unit.cloned)
    /\ \A c \in Charms : calls[c].setup_venv <= 1

\* A unit of work that has started and has no outcome yet.
NonTerminal == {"pending", "provisioned", "fixture-resolved", "synthesized"}

\* C19: execution is sequential and every started unit finishes.  A unit
\* starts only when the unit before it has passed or failed; every unit
\* that has started eventually passes or fails; and the run eventually
\* returns, having started every unit of every tested role.
CE_C19_UnitsFinishRunReturns ==
    /\ [][started' # started => unit.state \in {"none", "passed", "failed"}]_vars
    /\ (unit.state \in NonTerminal) ~> (unit.state \in {"passed", "failed"})
    /\ <>(pc = "done" /\ started = TraversalOrder(registry))

\* C20: the test a unit runs is the one it wrote.  A unit in which pytest
\* has run had synthesized its test before, and the file pytest ran was
\* generated for that unit's interface and version, with the fixture
\* identifier of its charm, also when an earlier unit of the same charm and
\* interface had written a file of the same name.
Thm_C20_RunsOwnArtifact ==
    unit.executed =>
        /\ unit.synthesized
        /\ unit.ran = TestContent(unit.interface,
                                  get_fixture(ConfigOf(unit.charm), <<>>).id,
                                  unit.version)

\* C20 witness: A's ingress test file, written by a unit of version 1, was
\* written again by A's unit of version 2, and pytest ran it for version 2.
Wit_C20_OverwrittenArtifact ==
    /\ unit.charm = "A" /\ unit.interface = "ingress" /\ unit.version = 2
    /\ unit.existed /\ unit.executed
    /\ Len(started) = 2
    /\ started[1] = <<"ingress", <<"v", "1">>, "provider", 1, "A">>
    /\ calls["A"].pytest = 2
    /\ unit.ran.version = 2

====
